---- MODULE Spec2Model ----
(***************************************************************************)
(* Model of gaming_news_bot.py: the Perplexity client (fetch_gaming_news,  *)
(* fact_check_content), the pipeline (GamingNewsBot.post_daily_news and    *)
(* create_news_embed), the daily task (tasks.loop(time=...) with on_ready) *)
(* the test and status commands, and the start of the process.             *)
(*                                                                         *)
(* Every coroutine is cut at its await points: one action per resumption.  *)
(* The clock counts whole hours since midnight UTC of the first day; the   *)
(* configured minute is the default 0, so the daily time is on the hour.   *)
(* Texts are strings.  A Python value that is either a str or None is the  *)
(* record [some, text].                                                    *)
(***************************************************************************)
EXTENDS Integers, Sequences, FiniteSets, TLC

VARIABLES now, task, next_iteration, last_iteration, current_loop, starts,
          runs, ctx, proc

vars == <<now, task, next_iteration, last_iteration, current_loop, starts,
          runs, ctx, proc>>

sched == <<task, next_iteration, last_iteration, current_loop, starts>>

-----------------------------------------------------------------------------
(* Bounds and program constants *)

\* Last hour the model's clock reaches.
MaxTime == 36

HoursPerDay == 24

NEWS_POST_HOUR == 9

FIELD1_LIMIT == 1000

FIELD2_LIMIT == 500

\* Absent timestamp (Python None for a datetime).
NoTime == -1

-----------------------------------------------------------------------------
(* Python values *)

None == [some |-> FALSE, text |-> ""]

Str(t) == [some |-> TRUE, text |-> t]

\* Python truthiness of a str-or-None value: None and "" are falsy.
Truthy(v) == v.some /\ v.text # ""

\* Texts the completion endpoint may answer with.
NewsTexts == {"", "news"}

FactTexts == {"fact"}

\* What one HTTP POST to the completion endpoint can come back with:
\* status 200 with a JSON body whose choices[0].message.content is a string
\* or null; status 200 with a body that does not parse or lacks the path;
\* a non-200 status; an exception raised by the transport.
Responses(texts) ==
    {[kind |-> "ok", content |-> Str(t)] : t \in texts}
    \cup {[kind |-> "ok", content |-> None]}
    \cup {[kind |-> k, content |-> None] : k \in {"malformed", "non200", "transport"}}

-----------------------------------------------------------------------------
(* PerplexityAPI *)

FALLBACK_VERIFICATION == "Content appears factual (verification unavailable)"

FALLBACK_FACT_CHECK == "Content appears factual (fact-check unavailable)"

\* Faulty variant of fetch_gaming_news: a non-200 status is not logged.
fetch_gaming_news_silent(resp) ==
    CASE resp.kind = "ok" -> [value |-> resp.content, log |-> {}]
      [] resp.kind = "non200" -> [value |-> None, log |-> {}]
      [] OTHER -> [value |-> None, log |-> {"news_exception"}]

\* fetch_gaming_news: the value returned and the logger.error it emits.
fetch_gaming_news(resp) ==
    CASE resp.kind = "ok" -> [value |-> resp.content, log |-> {}]
      [] resp.kind = "non200" -> [value |-> None, log |-> {"news_status"}]
      [] OTHER -> [value |-> None, log |-> {"news_exception"}]

\* Faulty variant of fact_check_content: a failure returns None, as in
\* fetch_gaming_news.
fact_check_content_none(resp) ==
    CASE resp.kind = "ok" -> [value |-> resp.content, log |-> {}]
      [] resp.kind = "non200" -> [value |-> None, log |-> {}]
      [] OTHER -> [value |-> None, log |-> {"fact_exception"}]

\* fact_check_content: the value returned and the logger.error it emits.
fact_check_content(resp) ==
    CASE resp.kind = "ok" -> [value |-> resp.content, log |-> {}]
      [] resp.kind = "non200" -> [value |-> Str(FALLBACK_VERIFICATION), log |-> {}]
      [] OTHER -> [value |-> Str(FALLBACK_FACT_CHECK), log |-> {"fact_exception"}]

-----------------------------------------------------------------------------
(* GamingNewsBot.create_news_embed *)

\* Faulty variant of Truncate: a text of exactly n characters is cut too.
Truncate_at_limit(s, n) == IF Len(s) >= n THEN SubSeq(s, 1, n) \o "..." ELSE s

\* s[:n] + "..." if len(s) > n else s
Truncate(s, n) == IF Len(s) > n THEN SubSeq(s, 1, n) \o "..." ELSE s

NoEmbed == [built |-> FALSE, field1 |-> "", field2 |-> ""]

\* len() of None raises TypeError: the embed is built only from two strings.
EmbedRaises(news_content, fact_check_result) ==
    ~news_content.some \/ ~fact_check_result.some

create_news_embed(news_content, fact_check_result) ==
    [built |-> TRUE,
     field1 |-> Truncate(news_content.text, FIELD1_LIMIT),
     field2 |-> Truncate(fact_check_result.text, FIELD2_LIMIT)]

-----------------------------------------------------------------------------
(* GamingNewsBot.post_daily_news, one operator per resumption *)

\* The two places post_daily_news is called from; each has at most one run
\* in flight in the model.
Runs == {"scheduled", "manual"}

IdleRun ==
    [pc |-> "idle", outcome |-> "none", channel |-> FALSE,
     news_kind |-> "none", news |-> None, fact_input |-> None,
     fact_kind |-> "none", fact |-> None,
     embed |-> NoEmbed, sent |-> <<>>, attempts |-> 0,
     news_calls |-> 0, fact_calls |-> 0, log |-> {}]

\* Faulty variant of BeginRun: the news request is made before the channel
\* is looked at.
BeginRun_fetch_first(channel) ==
    [IdleRun EXCEPT !.channel = channel, !.pc = "fetch", !.news_calls = 1]

\* Entry up to the first await: bot.get_channel, then the news request.
\* `channel` tells whether get_channel returned a channel.
BeginRun(channel) ==
    IF ~channel
    THEN [IdleRun EXCEPT !.pc = "done", !.outcome = "NoChannel",
                         !.log = {"no_channel"}]
    ELSE [IdleRun EXCEPT !.channel = TRUE, !.pc = "fetch", !.news_calls = 1]

\* Faulty variant of AfterFetch: news_content is not tested, the fact-check
\* request is made whatever the news request returned.
AfterFetch_unchecked(run, resp) ==
    LET res == fetch_gaming_news(resp) IN
    [run EXCEPT !.news_kind = resp.kind, !.news = res.value,
                !.log = @ \cup res.log,
                !.pc = "fact_check", !.fact_calls = @ + 1,
                !.fact_input = res.value]

\* Faulty variant of AfterFetch: a news request that failed is made once
\* more before the notice is sent.
AfterFetch_retry(run, resp) ==
    LET res == fetch_gaming_news(resp) IN
    IF ~Truthy(res.value)
    THEN IF run.news_calls < 2
         THEN [run EXCEPT !.log = @ \cup res.log, !.news_calls = @ + 1]
         ELSE [run EXCEPT !.news_kind = resp.kind, !.news = res.value,
                          !.log = @ \cup res.log,
                          !.pc = "send_fail_notice", !.attempts = @ + 1]
    ELSE [run EXCEPT !.news_kind = resp.kind, !.news = res.value,
                     !.log = @ \cup res.log,
                     !.pc = "fact_check", !.fact_calls = @ + 1,
                     !.fact_input = res.value]

\* Faulty variant of AfterFetch: the fact-check request is made for a text
\* kept outside the run instead of the text the run has fetched.
AfterFetch_shared_text(run, resp) ==
    LET res == fetch_gaming_news(resp) IN
    IF ~Truthy(res.value)
    THEN [run EXCEPT !.news_kind = resp.kind, !.news = res.value,
                     !.log = @ \cup res.log,
                     !.pc = "send_fail_notice", !.attempts = @ + 1]
    ELSE [run EXCEPT !.news_kind = resp.kind, !.news = res.value,
                     !.log = @ \cup res.log,
                     !.pc = "fact_check", !.fact_calls = @ + 1,
                     !.fact_input = Str("news")]

\* fetch_gaming_news has returned: `if not news_content` sends the notice,
\* otherwise the fact-check request is made.
AfterFetch(run, resp) ==
    LET res == fetch_gaming_news(resp) IN
    IF ~Truthy(res.value)
    THEN [run EXCEPT !.news_kind = resp.kind, !.news = res.value,
                     !.log = @ \cup res.log,
                     !.pc = "send_fail_notice", !.attempts = @ + 1]
    ELSE [run EXCEPT !.news_kind = resp.kind, !.news = res.value,
                     !.log = @ \cup res.log,
                     !.pc = "fact_check", !.fact_calls = @ + 1,
                     !.fact_input = res.value]

\* fact_check_content has returned: build the embed and send it; an
\* exception while building it goes to the except branch, which sends the
\* generic error notice.
AfterFactCheck(run, resp) ==
    LET res == fact_check_content(resp) IN
    IF EmbedRaises(run.news, res.value)
    THEN [run EXCEPT !.fact_kind = resp.kind, !.fact = res.value,
                     !.log = @ \cup res.log \cup {"post_error"},
                     !.pc = "send_error_notice", !.attempts = @ + 1]
    ELSE [run EXCEPT !.fact_kind = resp.kind, !.fact = res.value,
                     !.log = @ \cup res.log,
                     !.embed = create_news_embed(run.news, res.value),
                     !.pc = "send_embed", !.attempts = @ + 1]

Message(pc) ==
    CASE pc = "send_embed" -> "embed"
      [] pc = "send_fail_notice" -> "fetch_failed_notice"
      [] OTHER -> "error_notice"

\* Faulty variant of AfterSend: the error notice is sent in a finally
\* clause, so also after a send that succeeded.
AfterSend_finally(run, ok) ==
    IF run.pc = "send_error_notice"
    THEN [run EXCEPT !.sent = IF ok THEN Append(@, "error_notice") ELSE @,
                     !.pc = "done",
                     !.outcome = IF ok THEN "DeliveryError" ELSE "Raised"]
    ELSE [run EXCEPT !.sent = IF ok THEN Append(@, Message(run.pc)) ELSE @,
                     !.pc = "send_error_notice", !.attempts = @ + 1]

\* channel.send has returned (ok) or raised (~ok).  A send that raises inside
\* the try block is caught and the generic error notice is sent; a send that
\* raises inside the except block leaves post_daily_news as an exception.
AfterSend(run, ok) ==
    IF ok
    THEN [run EXCEPT !.sent = Append(@, Message(run.pc)),
                     !.pc = "done",
                     !.outcome = CASE run.pc = "send_embed" -> "Delivered"
                                   [] run.pc = "send_fail_notice" -> "FetchFailed"
                                   [] OTHER -> "DeliveryError"]
    ELSE IF run.pc = "send_error_notice"
         THEN [run EXCEPT !.pc = "done", !.outcome = "Raised"]
         ELSE [run EXCEPT !.log = @ \cup {"post_error"},
                          !.pc = "send_error_notice", !.attempts = @ + 1]

InFlight(run) == run.pc \notin {"idle", "done"}

-----------------------------------------------------------------------------
(* discord.ext.tasks loop created by @tasks.loop(time=time(hour, minute)) *)

TimeOfDay(t) == t % HoursPerDay

\* Faulty variant of NextSleepTime: today's occurrence is taken also when
\* it is not ahead any more.
NextSleepTime_inclusive(t) ==
    LET today == (t - TimeOfDay(t)) + NEWS_POST_HOUR IN
    IF today >= t THEN today ELSE today + HoursPerDay

\* Faulty variant of NextSleepTime: an interval of 24 hours counted from
\* `t` instead of a time of day.
NextSleepTime_interval(t) == t + HoursPerDay

\* The next occurrence of the configured time after `t`: today's when it is
\* still ahead, tomorrow's otherwise.
NextSleepTime(t) ==
    LET today == (t - TimeOfDay(t)) + NEWS_POST_HOUR IN
    IF today > t THEN today ELSE today + HoursPerDay

\* daily_gaming_news.is_running()
is_running == task \in {"sleeping", "running"}

\* daily_gaming_news.next_iteration: None before the first start and once
\* the task has ended.
NextIterationRead == IF is_running THEN next_iteration ELSE NoTime

\* The loop after the coroutine of one iteration has ended: a normal return
\* completes the iteration and the loop sleeps until next_iteration; an
\* exception ends the task.  The exception that can leave post_daily_news
\* is the one channel.send raises, a discord.HTTPException, which is not
\* among the connection errors the loop retries.
LoopAfterCoro(outcome) ==
    IF outcome = "Raised"
    THEN task' = "failed" /\ current_loop' = 0
    ELSE task' = "sleeping" /\ current_loop' = current_loop + 1

\* Faulty variant of Resume: a run goes on only while no other run is in
\* flight, as under a lock around post_daily_news taken at the first request.
Resume_exclusive(r, run) ==
    /\ \A q \in Runs \ {r} : ~InFlight(runs[q])
    /\ runs' = [runs EXCEPT ![r] = run]
    /\ IF r = "scheduled" /\ run.pc = "done"
       THEN LoopAfterCoro(run.outcome)
       ELSE UNCHANGED <<task, current_loop>>
    /\ UNCHANGED <<now, next_iteration, last_iteration, starts, ctx, proc>>

\* One resumption of a run; the scheduled run is awaited by the loop.
Resume(r, run) ==
    /\ runs' = [runs EXCEPT ![r] = run]
    /\ IF r = "scheduled" /\ run.pc = "done"
       THEN LoopAfterCoro(run.outcome)
       ELSE UNCHANGED <<task, current_loop>>
    /\ UNCHANGED <<now, next_iteration, last_iteration, starts, ctx, proc>>

-----------------------------------------------------------------------------
(* Actions *)

\* Faulty variant of StartupChecks: the token is not looked at.
StartupChecks_no_token_check(api_key, token, channel_id) ==
    IF ~api_key
    THEN [exit |-> TRUE, code |-> 1, log |-> {"no_api_key"}]
    ELSE [exit |-> FALSE, code |-> 0,
          log |-> IF ~channel_id THEN {"no_channel_id"} ELSE {}]

\* The checks of the main block before bot.run: exit(1) without the API key
\* or without the token, a warning without the channel id.
StartupChecks(api_key, token, channel_id) ==
    IF ~api_key
    THEN [exit |-> TRUE, code |-> 1, log |-> {"no_api_key"}]
    ELSE IF ~token
         THEN [exit |-> TRUE, code |-> 1, log |-> {"no_token"}]
         ELSE [exit |-> FALSE, code |-> 0,
               log |-> IF ~channel_id THEN {"no_channel_id"} ELSE {}]

\* The process is inside bot.run: events and commands are dispatched.
Live == proc.phase = "running"

\* What bot.get_channel(NEWS_CHANNEL_ID) can return: no channel has the id
\* 0 of a missing NEWS_CHANNEL_ID; a configured channel may be unknown.
ChannelLookups == IF proc.channel_id THEN BOOLEAN ELSE {FALSE}

Init ==
    /\ proc \in [phase : {"startup"}, api_key : BOOLEAN, token : BOOLEAN,
                 channel_id : BOOLEAN, exit_code : {0}, log : {{}}]
    /\ now = 0
    /\ task = "none"
    /\ next_iteration = NoTime
    /\ last_iteration = NoTime
    /\ current_loop = 0
    /\ starts = 0
    /\ runs = [r \in Runs |-> IdleRun]
    /\ ctx = [cmd |-> "none", admin |-> FALSE, reply |-> <<>>,
              active |-> FALSE, next |-> NoTime]

\* The main block: the checks, then bot.run, which either runs the bot or
\* raises (login failure); the exception is logged and the process ends.
main ==
    /\ proc.phase = "startup"
    /\ LET chk == StartupChecks(proc.api_key, proc.token, proc.channel_id) IN
       IF chk.exit
       THEN proc' = [proc EXCEPT !.phase = "exited", !.exit_code = chk.code,
                                 !.log = chk.log]
       ELSE \E login \in BOOLEAN :
                proc' = IF login
                        THEN [proc EXCEPT !.phase = "running", !.log = chk.log]
                        ELSE [proc EXCEPT !.phase = "exited",
                                          !.log = chk.log \cup {"failed_to_start"}]
    /\ UNCHANGED <<now, sched, runs, ctx>>

\* on_ready: start the daily task unless it is running.  before_loop's
\* wait_until_ready returns at once, and the loop computes its first
\* next_iteration.
on_ready ==
    /\ Live
    /\ IF ~is_running
       THEN /\ task' = "sleeping"
            /\ next_iteration' = NextSleepTime(now)
            /\ starts' = starts + 1
       ELSE UNCHANGED <<task, next_iteration, starts>>
    /\ UNCHANGED <<now, last_iteration, current_loop, runs, ctx, proc>>

\* An hour passes and no iteration is due.  A run ends within the hour
\* before the loop's next iteration (the HTTP calls time out in minutes).
Tick ==
    /\ Live
    /\ now < MaxTime
    /\ ~(is_running /\ next_iteration = now + 1)
    /\ now' = now + 1
    /\ UNCHANGED <<sched, runs, ctx, proc>>

\* The clock reaches next_iteration: the loop wakes, moves next_iteration to
\* the following occurrence and calls daily_gaming_news, which runs
\* post_daily_news up to its first await.
daily_gaming_news ==
    /\ now < MaxTime
    /\ task = "sleeping"
    /\ next_iteration = now + 1
    /\ now' = now + 1
    /\ last_iteration' = next_iteration
    /\ next_iteration' = NextSleepTime(now')
    /\ \E channel \in ChannelLookups :
         LET run == BeginRun(channel) IN
         /\ runs' = [runs EXCEPT !["scheduled"] = run]
         /\ IF run.pc = "done"
            THEN LoopAfterCoro(run.outcome)
            ELSE task' = "running" /\ current_loop' = current_loop
    /\ UNCHANGED <<starts, ctx, proc>>

\* Faulty variant of TestNewsHandler: the run is started before the
\* permission is looked at.
TestNewsHandler_unguarded(admin, sendOk, channel) ==
    /\ ctx' = [cmd |-> "test", admin |-> admin,
               reply |-> IF ~sendOk THEN <<>>
                         ELSE IF admin THEN <<"fetching">> ELSE <<"denied">>,
               active |-> FALSE, next |-> NoTime]
    /\ runs' = [runs EXCEPT !["manual"] = BeginRun(channel)]
    /\ UNCHANGED <<now, sched, proc>>

\* !newstest: the administrator check, the reply, and for an administrator
\* post_daily_news up to its first await.  ctx.send may raise, and then the
\* handler ends there.
TestNewsHandler(admin, sendOk, channel) ==
    /\ ctx' = [cmd |-> "test", admin |-> admin,
               reply |-> IF ~sendOk THEN <<>>
                         ELSE IF admin THEN <<"fetching">> ELSE <<"denied">>,
               active |-> FALSE, next |-> NoTime]
    /\ IF admin /\ sendOk
       THEN runs' = [runs EXCEPT !["manual"] = BeginRun(channel)]
       ELSE UNCHANGED runs
    /\ UNCHANGED <<now, sched, proc>>

test_news ==
    \E admin \in BOOLEAN, sendOk \in BOOLEAN, channel \in ChannelLookups :
        /\ Live
        /\ ~InFlight(runs["manual"])
        /\ TestNewsHandler(admin, sendOk, channel)

\* !newsstatus: no permission check; the embed shows whether the daily task
\* is running and its next_iteration, "Not scheduled" (NoTime) when that is
\* None.  ctx.send may raise, and then no embed is shown; ctx.active and
\* ctx.next are the fields of the embed that was shown.
StatusHandler(admin, sendOk) ==
    /\ ctx' = [cmd |-> "status", admin |-> admin,
               reply |-> IF sendOk THEN <<"status">> ELSE <<>>,
               active |-> sendOk /\ is_running,
               next |-> IF sendOk THEN NextIterationRead ELSE NoTime]
    /\ UNCHANGED <<now, sched, runs, proc>>

bot_status ==
    \E admin \in BOOLEAN, sendOk \in BOOLEAN :
        /\ Live
        /\ StatusHandler(admin, sendOk)

FetchReturns ==
    \E r \in Runs, resp \in Responses(NewsTexts) :
        /\ runs[r].pc = "fetch"
        /\ Resume(r, AfterFetch(runs[r], resp))

FactCheckReturns ==
    \E r \in Runs, resp \in Responses(FactTexts) :
        /\ runs[r].pc = "fact_check"
        /\ Resume(r, AfterFactCheck(runs[r], resp))

SendReturns ==
    \E r \in Runs, ok \in BOOLEAN :
        /\ runs[r].pc \in {"send_embed", "send_fail_notice", "send_error_notice"}
        /\ Resume(r, AfterSend(runs[r], ok))

\* n copies of the one-character string c.
Rep(c, n) ==
    LET RECURSIVE R(_)
        R(k) == IF k = 0 THEN ""
                ELSE LET h == R(k \div 2) IN
                     IF k % 2 = 0 THEN h \o h ELSE h \o h \o c
    IN R(n)

\* A text of n characters whose letter changes every 250 characters.
Text(n) ==
    LET RECURSIVE T(_, _)
        T(k, letters) ==
            IF k <= 250 \/ Len(letters) = 1
            THEN Rep(SubSeq(letters, 1, 1), k)
            ELSE Rep(SubSeq(letters, 1, 1), 250)
                     \o T(k - 250, SubSeq(letters, 2, Len(letters)))
    IN T(n, "abcdefgh")

\* Answers of the completion endpoint around the two limits of the embed.
LongNewsTexts == {Text(n) : n \in {0, 1, 999, 1000, 1001, 1003, 1500}}

LongFactTexts == {Text(n) : n \in {1, 499, 500, 501, 503, 800}}

LongFetchReturns ==
    \E r \in Runs, resp \in Responses(LongNewsTexts) :
        /\ runs[r].pc = "fetch"
        /\ Resume(r, AfterFetch(runs[r], resp))

LongFactCheckReturns ==
    \E r \in Runs, resp \in Responses(LongFactTexts) :
        /\ runs[r].pc = "fact_check"
        /\ Resume(r, AfterFactCheck(runs[r], resp))

Next ==
    \/ main
    \/ on_ready
    \/ Tick
    \/ daily_gaming_news
    \/ test_news
    \/ bot_status
    \/ FetchReturns
    \/ FactCheckReturns
    \/ SendReturns

Spec == Init /\ [][Next]_vars

\* An hour of the first day passes, up to the hour after the daily time.
MorningTick ==
    /\ now < NEWS_POST_HOUR + 1
    /\ Tick

\* Two different news texts, to tell the runs apart.
PairNewsTexts == {"", "news", "other"}

\* The provider's assessment of the text it was asked about.
AnswersTo(text) == {"fact(" \o text \o ")"}

\* The awaited call of run r returns and the run goes on to its next await.
PairFetchReturnsOf(r) ==
    \E resp \in Responses(PairNewsTexts) :
        /\ runs[r].pc = "fetch"
        /\ Resume(r, AfterFetch(runs[r], resp))

PairFactCheckReturnsOf(r) ==
    \E resp \in Responses(AnswersTo(runs[r].fact_input.text)) :
        /\ runs[r].pc = "fact_check"
        /\ Resume(r, AfterFactCheck(runs[r], resp))

SendReturnsOf(r) ==
    \E ok \in BOOLEAN :
        /\ runs[r].pc \in {"send_embed", "send_fail_notice", "send_error_notice"}
        /\ Resume(r, AfterSend(runs[r], ok))

PairFetchReturns == \E r \in Runs : PairFetchReturnsOf(r)

PairFactCheckReturns == \E r \in Runs : PairFactCheckReturnsOf(r)

PairSendReturns == \E r \in Runs : SendReturnsOf(r)

\* The first morning: the daily run and a test run side by side, each with
\* its own news text and a fact check that answers about the text it got.
PairNext ==
    \/ main
    \/ on_ready
    \/ MorningTick
    \/ daily_gaming_news
    \/ test_news
    \/ PairFetchReturns
    \/ PairFactCheckReturns
    \/ PairSendReturns

PairSpec == Init /\ [][PairNext]_vars

\* The test command alone, with answers of every length around the limits.
FormatNext ==
    \/ main
    \/ test_news
    \/ LongFetchReturns
    \/ LongFactCheckReturns
    \/ SendReturns

FormatSpec == Init /\ [][FormatNext]_vars

-----------------------------------------------------------------------------
(* Vocabulary of the claims *)

Done(run) == run.pc = "done"

\* The run resolved its channel and so made the news request.
Resolved(run) == run.news_calls > 0

FailureKinds == {"non200", "transport", "malformed"}

Notices == {"fetch_failed_notice", "error_notice"}

Delivered(run, m) == \E i \in 1..Len(run.sent) : run.sent[i] = m

-----------------------------------------------------------------------------
(* C1 *)

\* C1 as stated: every finished run that resolved its sink has sent exactly
\* one message to it, whatever the provider and the sink did.
C1_ExactlyOneMessage ==
    \A r \in Runs :
        (Done(runs[r]) /\ Resolved(runs[r]))
            => Len(runs[r].sent) = 1

\* C1 as amended: a run delivers at most one message to the sink (the report
\* or one of the two notices, never two of them); it calls send a second
\* time only after the first send raised, and that second message is the
\* generic error notice; a finished run that resolved its sink has delivered
\* exactly one message unless the send of the generic error notice raised,
\* and then it has delivered none.
C1_AtMostOneDelivered ==
    \A r \in Runs :
        LET run == runs[r] IN
        /\ Len(run.sent) <= 1
        /\ run.attempts <= 2
        /\ (run.attempts = 2 /\ Len(run.sent) = 1) => run.sent = <<"error_notice">>
        /\ (Done(run) /\ Resolved(run) /\ run.outcome # "Raised")
               => (Len(run.sent) = 1 /\ run.sent[1] \in Notices \cup {"embed"})
        /\ (Done(run) /\ run.outcome = "Raised") => run.sent = <<>>

\* A run whose report could not be sent and whose error notice was.
C1_Witness ==
    \E r \in Runs :
        /\ Done(runs[r])
        /\ runs[r].embed.built
        /\ runs[r].attempts = 2
        /\ runs[r].sent = <<"error_notice">>

-----------------------------------------------------------------------------
(* C2 *)

\* The news request of the run has returned None.
NewsAbsent(run) == run.news_kind # "none" /\ ~run.news.some

\* C2 as stated: when the news call returned absence, the finished run has
\* sent exactly one failure notice, no report, and made no fact-check call.
C2_ExactlyOneNotice ==
    \A r \in Runs :
        (Done(runs[r]) /\ NewsAbsent(runs[r]))
            => /\ Len(runs[r].sent) = 1
               /\ runs[r].sent[1] \in Notices
               /\ ~runs[r].embed.built
               /\ runs[r].fact_calls = 0

\* C2 as amended: when the news call returned absence, the run makes no
\* fact-check call, builds and sends no report, and delivers at most one
\* failure notice: the fetch-failure notice, or the generic error notice
\* when the send of the fetch-failure notice raised; exactly one notice is
\* delivered unless the send of the generic error notice raised too.
C2_AbsentNewsOneNotice ==
    \A r \in Runs :
        LET run == runs[r] IN
        NewsAbsent(run)
            => /\ run.fact_calls = 0
               /\ run.fact_kind = "none"
               /\ ~run.embed.built
               /\ ~Delivered(run, "embed")
               /\ Len(run.sent) <= 1
               /\ (Done(run) /\ run.outcome # "Raised")
                      => (Len(run.sent) = 1 /\ run.sent[1] \in Notices)
               /\ (Done(run) /\ run.attempts = 1)
                      => run.sent = <<"fetch_failed_notice">>

\* A finished run whose news call returned None and whose notice was sent.
C2_Witness ==
    \E r \in Runs :
        /\ Done(runs[r])
        /\ NewsAbsent(runs[r])
        /\ runs[r].news_kind \in FailureKinds
        /\ runs[r].sent = <<"fetch_failed_notice">>

-----------------------------------------------------------------------------
(* C3 *)

\* The fact-check request of the run has failed.
FactCheckFailed(run) == run.fact_kind \in FailureKinds

-----------------------------------------------------------------------------
(* C4 *)

\* C4 as stated: a report is built only in a run whose news call returned a
\* text, and once the news call has, every outcome of the fact-check call
\* leaves the report built.
C4_ReportIffNewsSucceeded ==
    \A r \in Runs :
        /\ runs[r].embed.built => (runs[r].news_kind = "ok" /\ runs[r].news.some)
        /\ runs[r].fact_kind # "none" => runs[r].embed.built

\* The failing case of C4: the fact-check call answered 200 with a null
\* content, the embed was not built and the generic error notice was sent.
C4_NullFactCheckBlocksReport ==
    \E r \in Runs :
        /\ Done(runs[r])
        /\ Truthy(runs[r].news)
        /\ runs[r].fact_kind = "ok" /\ ~runs[r].fact.some
        /\ ~runs[r].embed.built
        /\ runs[r].sent = <<"error_notice">>

-----------------------------------------------------------------------------
(* C5 *)

\* C5: a test command from an invoker without the administrator permission
\* starts no run, makes no completion call, sends nothing to the news
\* channel and leaves the daily task alone; its only answer is the
\* permission-denied notice.
C5_NonAdminTestDoesNothing ==
    [][(ctx' # ctx /\ ctx'.cmd = "test" /\ ~ctx'.admin)
          => /\ runs' = runs
             /\ \A r \in Runs :
                   /\ runs'[r].news_calls = runs[r].news_calls
                   /\ runs'[r].fact_calls = runs[r].fact_calls
                   /\ runs'[r].sent = runs[r].sent
             /\ sched' = sched
             /\ ctx'.reply \in {<<>>, <<"denied">>}]_vars

\* A denied test command after a scheduled run has finished and while a
\* manual run of an administrator is in flight.
C5_Witness ==
    /\ ctx.cmd = "test" /\ ~ctx.admin /\ ctx.reply = <<"denied">>
    /\ Done(runs["scheduled"]) /\ runs["scheduled"].outcome = "Delivered"
    /\ runs["manual"] = IdleRun

-----------------------------------------------------------------------------
(* C6 *)

\* The earliest hour after t whose time of day is the configured one.
EarliestOccurrenceAfter(t) ==
    CHOOSE u \in (t + 1)..(t + HoursPerDay) : TimeOfDay(u) = NEWS_POST_HOUR

\* C6: while the daily task is running, next_iteration read at the current
\* time is strictly later than it and is the earliest occurrence of the
\* configured time after it.
C6_NextFireIsNextOccurrence ==
    is_running
        => /\ NextIterationRead > now
           /\ NextIterationRead = EarliestOccurrenceAfter(now)
           /\ NextIterationRead - now <= HoursPerDay

\* Configured 09:00, the task running at 14:00 of the first day without
\* having fired: next_iteration is 09:00 of the following day.
C6_Witness ==
    /\ now = 14
    /\ task = "sleeping"
    /\ last_iteration = NoTime
    /\ NextIterationRead = HoursPerDay + 9

-----------------------------------------------------------------------------
(* C7 *)

\* C7: the running daily task starts a scheduled run exactly when the clock
\* reaches the configured time of day: every iteration starts at that time,
\* no occurrence of it passes without one, an iteration that follows a
\* completed one of the same start comes exactly 24 hours after it, and
\* this holds however many hours the runs stay in flight.
C7_FiresDailyAtConfiguredTime ==
    [][/\ (last_iteration' # last_iteration)
            => /\ last_iteration' = now'
               /\ now' = next_iteration
               /\ TimeOfDay(now') = NEWS_POST_HOUR
               /\ runs'["scheduled"] \in {BeginRun(TRUE), BeginRun(FALSE)}
               /\ next_iteration' = now' + HoursPerDay
               /\ current_loop > 0 => now' = last_iteration + HoursPerDay
       /\ (is_running /\ now' # now /\ TimeOfDay(now') = NEWS_POST_HOUR)
            => last_iteration' = now'
       /\ (now' # now /\ TimeOfDay(now') # NEWS_POST_HOUR)
            => runs'["scheduled"] = runs["scheduled"]]_vars

\* The second iteration of one start, 24 hours after the first, whose run
\* was in flight for hours.
C7_Witness ==
    /\ starts = 1
    /\ current_loop = 1
    /\ last_iteration = NEWS_POST_HOUR + HoursPerDay
    /\ now > last_iteration + 1
    /\ InFlight(runs["scheduled"])

-----------------------------------------------------------------------------
(* C8 *)

\* C8 as stated: over any sequence of ready signals the daily task is
\* started exactly once.
C8_StartedOnce == starts <= 1

\* A ready signal while the task runs changes nothing, and the one loop
\* awaits its run: it never starts a second scheduled run beside it.
C8_ReadyWhileRunningIsNoOp ==
    [][/\ (is_running /\ now' = now /\ runs' = runs /\ ctx' = ctx)
            => sched' = sched
       /\ (starts' # starts) => (~is_running /\ starts' = starts + 1)]_vars

-----------------------------------------------------------------------------
(* C9 *)

\* C9 as stated: post_daily_news returns normally whatever fails, and the
\* daily task keeps running once started.
C9_NothingEscapes ==
    /\ \A r \in Runs : runs[r].outcome # "Raised"
    /\ starts > 0 => is_running

-----------------------------------------------------------------------------
(* C10 *)

NewsLogs == {"news_status", "news_exception"}

FactLogs == {"fact_status", "fact_exception"}

\* C10 as stated: for both requests a non-200 status or a transport failure
\* is logged and the call returns None.
C10_FailureIsLoggedAbsence ==
    \A r \in Runs :
        /\ runs[r].news_kind \in FailureKinds
              => (runs[r].news = None /\ runs[r].log \cap NewsLogs # {})
        /\ runs[r].fact_kind \in FailureKinds
              => (runs[r].fact = None /\ runs[r].log \cap FactLogs # {})

\* C10 as amended: the news request logs any non-200 status and any
\* transport failure and returns None; the fact-check request returns a
\* fallback string instead of None, the "verification unavailable" string
\* without logging after a non-200 status and the "fact-check unavailable"
\* string with the error logged after a transport failure; neither lets an
\* exception reach post_daily_news, which goes on to the notice or to the
\* embed.
C10_FailureHandledPerRequest ==
    \A r \in Runs :
        LET run == runs[r] IN
        /\ run.news_kind \in FailureKinds
              => /\ run.news = None
                 /\ run.log \cap NewsLogs =
                       (IF run.news_kind = "non200"
                        THEN {"news_status"} ELSE {"news_exception"})
                 /\ run.pc = "send_fail_notice" => "post_error" \notin run.log
        /\ run.fact_kind \in FailureKinds
              => /\ run.fact =
                       (IF run.fact_kind = "non200"
                        THEN Str(FALLBACK_VERIFICATION)
                        ELSE Str(FALLBACK_FACT_CHECK))
                 /\ run.log \cap FactLogs =
                       (IF run.fact_kind = "non200" THEN {} ELSE {"fact_exception"})
                 /\ run.pc = "send_embed" => "post_error" \notin run.log

\* One run whose news request met a transport failure, another whose
\* fact-check request met a non-200 status.
C10_Witness ==
    /\ runs["manual"].news_kind = "transport"
    /\ runs["manual"].pc = "send_fail_notice"
    /\ runs["scheduled"].fact_kind = "non200"
    /\ runs["scheduled"].pc = "send_embed"

-----------------------------------------------------------------------------
(* C11 *)

\* `field` is `text` cut by the reference rule at `limit`: the text itself
\* up to the limit, its first `limit` characters and three dots beyond.
CutAt(field, text, limit) ==
    /\ Len(text) <= limit => field = text
    /\ Len(text) > limit
          => /\ Len(field) = limit + 3
             /\ SubSeq(field, 1, limit) = SubSeq(text, 1, limit)
             /\ SubSeq(field, limit + 1, limit + 3) = "..."

\* C11: in every embed, field 1 is the news text cut by the reference rule
\* at 1000 characters and field 2 the fact-check text cut at 500, so that
\* the fields are never longer than 1003 and 503 characters.
C11_TruncationMatchesReference ==
    \A r \in Runs :
        runs[r].embed.built
            => /\ CutAt(runs[r].embed.field1, runs[r].news.text, 1000)
               /\ CutAt(runs[r].embed.field2, runs[r].fact.text, 500)
               /\ Len(runs[r].embed.field1) <= 1003
               /\ Len(runs[r].embed.field2) <= 503

\* An embed whose two fields were both cut.
C11_Witness ==
    \E r \in Runs :
        /\ runs[r].embed.built
        /\ Len(runs[r].news.text) = 1500
        /\ Len(runs[r].embed.field1) = 1003
        /\ Len(runs[r].fact.text) = 501
        /\ Len(runs[r].embed.field2) = 503

\* An embed whose two texts are exactly at the limits and were left whole.
C11_WitnessAtLimit ==
    \E r \in Runs :
        /\ runs[r].embed.built
        /\ Len(runs[r].news.text) = 1000
        /\ runs[r].embed.field1 = runs[r].news.text
        /\ Len(runs[r].fact.text) = 500
        /\ runs[r].embed.field2 = runs[r].fact.text

-----------------------------------------------------------------------------
(* C12 *)

Started(run) == run.pc # "idle"

\* C12: a run whose channel could not be resolved has ended with NoChannel,
\* has attempted no send, has delivered nothing and has made neither the
\* news request nor the fact-check request.
C12_NoChannelDoesNothing ==
    \A r \in Runs :
        Started(runs[r]) /\ ~runs[r].channel
            => /\ Done(runs[r])
               /\ runs[r].outcome = "NoChannel"
               /\ runs[r].attempts = 0
               /\ runs[r].sent = <<>>
               /\ runs[r].news_calls = 0
               /\ runs[r].fact_calls = 0
               /\ ~runs[r].embed.built

\* A run without channel has ended while the other run is at work.
C12_Witness ==
    \E r, q \in Runs :
        /\ Started(runs[r]) /\ ~runs[r].channel
        /\ runs[r].outcome = "NoChannel"
        /\ InFlight(runs[q])

-----------------------------------------------------------------------------
(* C13 *)

\* Nothing has happened in the bot: the daily task was never started, no
\* run was started and no command was handled.
Untouched ==
    /\ task = "none" /\ starts = 0 /\ next_iteration = NoTime
    /\ \A r \in Runs : runs[r] = IdleRun
    /\ ctx.cmd = "none"

\* C13: without the API key or without the token the process, once past
\* its checks, has exited with a nonzero status, and nothing ever happens
\* in the bot; with both and without the channel id the warning is logged,
\* the process never exits with a nonzero status and it is running unless
\* bot.run itself failed.
C13_StartupChecks ==
    /\ ~proc.api_key \/ ~proc.token
          => /\ Untouched
             /\ proc.phase \in {"startup", "exited"}
             /\ proc.phase = "exited" => proc.exit_code # 0
    /\ proc.api_key /\ proc.token /\ ~proc.channel_id /\ proc.phase # "startup"
          => /\ "no_channel_id" \in proc.log
             /\ proc.exit_code = 0
             /\ Live \/ "failed_to_start" \in proc.log
    /\ proc.phase = "startup" => Untouched

\* The API key is there, the token is not: exit(1).
C13_Witness ==
    /\ proc.api_key /\ ~proc.token
    /\ proc.phase = "exited" /\ proc.exit_code = 1

\* No channel id: the bot runs, and its scheduled run finds no channel.
C13_WitnessNoChannelId ==
    /\ ~proc.channel_id /\ Live /\ "no_channel_id" \in proc.log
    /\ runs["scheduled"].outcome = "NoChannel"
    /\ ctx.cmd = "status"

-----------------------------------------------------------------------------
(* C14 *)

\* A status command has been answered in this step.
StatusStep == ctx' # ctx /\ ctx'.cmd = "status" /\ ctx'.reply # <<>>

\* C14: the status command is answered for every invoker, shows the daily
\* task as active exactly when it has been started, shows "Not scheduled"
\* exactly when it has never been started and the next fire time
\* otherwise, and changes neither the daily task nor any run.
C14_StatusReadsSchedule ==
    [][StatusStep
          => /\ ctx'.active = (starts > 0)
             /\ (ctx'.next = NoTime) = (starts = 0)
             /\ ctx'.next # NoTime => ctx'.next = next_iteration
             /\ sched' = sched
             /\ runs' = runs]_vars

\* The status shown after the daily task has ended with an exception:
\* inactive and "Not scheduled", although the task had been started.
C14_NotScheduledAfterStart ==
    /\ ctx.cmd = "status" /\ ctx.reply = <<"status">>
    /\ ~ctx.active /\ ctx.next = NoTime
    /\ starts > 0 /\ task = "failed"
    /\ runs["scheduled"].outcome = "Raised"

\* What the status command does do: it reads is_running and next_iteration
\* as they are and changes nothing, whoever invokes it.
C14_StatusIsPureRead ==
    [][StatusStep
          => /\ ctx'.active = is_running
             /\ ctx'.next = NextIterationRead
             /\ sched' = sched
             /\ runs' = runs]_vars

-----------------------------------------------------------------------------
(* C15 *)

\* The next resumption of run r, whichever call it is waiting for.
RunStep(r) ==
    PairFetchReturnsOf(r) \/ PairFactCheckReturnsOf(r) \/ SendReturnsOf(r)

\* An administrator's test command starts the manual run.
StartManual == test_news /\ InFlight(runs'["manual"])

\* C15: a run in flight can always take its next step, whatever the other
\* run is doing; while the scheduled run is in flight an administrator can
\* start the manual run; a step of one run leaves the other run as it is;
\* and a run that has delivered its report has sent exactly that one
\* message, whatever the other run has sent.
C15_RunsDoNotExclude ==
    [][/\ \A r \in Runs : InFlight(runs[r]) => ENABLED RunStep(r)
       /\ InFlight(runs["scheduled"]) /\ ~InFlight(runs["manual"])
             => ENABLED StartManual
       /\ \A r, q \in Runs :
             r # q /\ InFlight(runs[r]) /\ runs'[q] # runs[q]
                 => runs'[r] = runs[r]
       /\ \A r \in Runs :
             runs'[r].outcome = "Delivered" => runs'[r].sent = <<"embed">>]_vars

\* Both runs are in flight, the scheduled one waiting for its fact check
\* and the manual one for its news.
C15_Witness ==
    /\ runs["scheduled"].pc = "fact_check"
    /\ runs["manual"].pc = "fetch"

\* Both runs have delivered their own report.
C15_WitnessBothDelivered ==
    \A r \in Runs :
        runs[r].outcome = "Delivered" /\ runs[r].sent = <<"embed">>

-----------------------------------------------------------------------------
(* C16 *)

Range(seq) == {seq[i] : i \in 1..Len(seq)}

\* C16: in every run the fact-check request is made only once the news
\* request has returned a text, and for exactly that text; the embed is
\* built and sent only once the fact-check request has returned; and the
\* embed a run has delivered shows the run's own news text next to the
\* assessment of that text (or a fallback string).
C16_CallsOrderedAndPaired ==
    \A r \in Runs :
        LET run == runs[r] IN
        /\ run.pc = "fetch" => run.fact_calls = 0 /\ run.fact_kind = "none"
        /\ run.fact_calls > 0
              => /\ run.news_kind = "ok" /\ Truthy(run.news)
                 /\ run.fact_input = run.news
        /\ run.pc = "fact_check" => ~run.embed.built /\ run.sent = <<>>
        /\ run.embed.built \/ "embed" \in Range(run.sent)
              => run.fact_kind # "none" /\ run.pc \notin {"fetch", "fact_check"}
        /\ "embed" \in Range(run.sent)
              => /\ run.embed.field1 = run.news.text
                 /\ run.embed.field2
                        \in AnswersTo(run.news.text)
                              \cup {FALLBACK_VERIFICATION, FALLBACK_FACT_CHECK}
                 /\ run.fact_kind = "ok"
                        => run.embed.field2 \in AnswersTo(run.news.text)

\* The two runs overlapped with different news texts, and each has
\* delivered its text with the assessment of that text.
C16_Witness ==
    /\ runs["scheduled"].outcome = "Delivered"
    /\ runs["manual"].outcome = "Delivered"
    /\ runs["scheduled"].news.text = "news"
    /\ runs["manual"].news.text = "other"
    /\ runs["scheduled"].embed.field2 = "fact(news)"
    /\ runs["manual"].embed.field2 = "fact(other)"

-----------------------------------------------------------------------------
(* C17 *)

\* C17: a run makes at most one news request and at most one fact-check
\* request, whatever the requests and the sends have returned.
C17_SingleAttemptPerCall ==
    \A r \in Runs :
        /\ runs[r].news_calls <= 1
        /\ runs[r].fact_calls <= 1
        /\ runs[r].fact_calls <= runs[r].news_calls

\* A run whose news request failed and whose notices could not be sent,
\* and a run whose fact check failed and whose embed could not be sent:
\* each request was made once.
C17_Witness ==
    /\ Done(runs["scheduled"])
    /\ runs["scheduled"].news_kind = "non200"
    /\ runs["scheduled"].attempts = 2 /\ runs["scheduled"].sent = <<>>
    /\ runs["scheduled"].news_calls = 1 /\ runs["scheduled"].fact_calls = 0
    /\ Done(runs["manual"])
    /\ runs["manual"].fact_kind = "transport"
    /\ runs["manual"].attempts = 2 /\ runs["manual"].sent = <<"error_notice">>
    /\ runs["manual"].news_calls = 1 /\ runs["manual"].fact_calls = 1

-----------------------------------------------------------------------------
(* C18 *)

\* The news request was answered with status 200 and a content text.
NewsSucceeded(run) == run.news_kind = "ok" /\ run.news.some

\* C18: after a 200 answer with a content text, the empty text included,
\* the fetch-failure notice is neither sent nor attempted, the fact-check
\* request is made, and the run ends with the report delivered.
C18_EveryTextIsSuccess ==
    \A r \in Runs :
        NewsSucceeded(runs[r])
            => /\ runs[r].pc # "send_fail_notice"
               /\ "fetch_failed_notice" \notin Range(runs[r].sent)
               /\ runs[r].fact_calls = 1
               /\ Done(runs[r]) => runs[r].outcome = "Delivered"

\* The news request was answered with status 200 and the empty text: the
\* run has sent the fetch-failure notice and made no fact-check request.
C18_EmptyTextIsFailure ==
    \E r \in Runs :
        /\ NewsSucceeded(runs[r]) /\ runs[r].news.text = ""
        /\ runs[r].outcome = "FetchFailed"
        /\ runs[r].sent = <<"fetch_failed_notice">>
        /\ runs[r].fact_calls = 0

\* What does hold: a non-empty text is never answered with the
\* fetch-failure notice and is always followed by the fact-check request.
C18_NonEmptyTextIsSuccess ==
    \A r \in Runs :
        NewsSucceeded(runs[r]) /\ runs[r].news.text # ""
            => /\ runs[r].pc # "send_fail_notice"
               /\ "fetch_failed_notice" \notin Range(runs[r].sent)
               /\ runs[r].fact_calls = 1

-----------------------------------------------------------------------------
(* C19 *)

\* C19: is_running() and next_iteration change only in a step that starts
\* the daily task or in a step in which it fires.
C19_OnlySchedulerChangesSchedule ==
    [][is_running' # is_running \/ NextIterationRead' # NextIterationRead
          => starts' # starts \/ last_iteration' # last_iteration]_vars

\* The scheduled run has ended with an exception and has taken the daily
\* task with it, while a test command runs on.
C19_RunStoppedSchedule ==
    /\ runs["scheduled"].outcome = "Raised"
    /\ ~is_running /\ NextIterationRead = NoTime
    /\ starts = 1 /\ last_iteration = NEWS_POST_HOUR
    /\ InFlight(runs["manual"])

\* What does hold: the commands and the manual run, whatever its outcome,
\* leave is_running() and next_iteration alone, and so does a scheduled
\* run that ends without an exception.
C19_FrameWithoutEscape ==
    [][(ctx' # ctx \/ runs'["manual"] # runs["manual"]
            \/ (runs'["scheduled"] # runs["scheduled"]
                    /\ last_iteration' = last_iteration
                    /\ runs'["scheduled"].outcome # "Raised"))
          => /\ is_running' = is_running
             /\ NextIterationRead' = NextIterationRead]_vars

-----------------------------------------------------------------------------
(* C20 *)

Outcomes == {"Delivered", "NoChannel", "FetchFailed", "DeliveryError"}

\* C20: a run that has finished has finished in one of the outcomes
\* Delivered, NoChannel, FetchFailed and DeliveryError.
C20_FinishesInAnOutcome ==
    \A r \in Runs : Done(runs[r]) => runs[r].outcome \in Outcomes

\* The manual run has left post_daily_news with an exception.
C20_EndedWithException ==
    /\ Done(runs["manual"]) /\ runs["manual"].outcome = "Raised"
    /\ runs["manual"].attempts = 2 /\ runs["manual"].sent = <<>>

\* What does hold: a run in flight is never taken out of flight or changed
\* by anything but its own next step.
C20_NeverCancelled ==
    [][\A r \in Runs :
          InFlight(runs[r]) /\ runs'[r] # runs[r]
              => /\ runs'[r].pc # "idle"
                 /\ runs'[r].attempts >= runs[r].attempts
                 /\ runs'[r].news_calls >= runs[r].news_calls
                 /\ Len(runs'[r].sent) >= Len(runs[r].sent)]_vars

====
